---- MODULE Spec2Model ----
(***************************************************************************)
(* Model of the hotreload framework.                                       *)
(*                                                                         *)
(*   Spec  : the program C++ runtime (HotReload<T>::get / assure_loaded in *)
(*           runtime/runtime.cpp) running against the driver's             *)
(*           build_shared_object, which shares lib, copy and lock files    *)
(*           with it.  get() is split at every system call, because the    *)
(*           driver is another process and may run between any two.        *)
(*   SpecW : the browser reconciler (reconcileChangedHotReloadable and     *)
(*           the fs.watch callback of runtime_browser.ts).                 *)
(*   SpecN : the native reconciler of the design document.                 *)
(***************************************************************************)
EXTENDS Integers, Sequences, FiniteSets, TLC

\* ---------------------------------------------------------------- bounds
\* number of distinct sources ever written per unit (initial one included)
MaxSrc == 3
\* last value of the one-second clock that stamps modification times
MaxTime == 2

\* ------------------------------------------------------------- constants
\* the two @hotreload methods of examples/counter.ts
Units == {"scale", "shift"}
\* nullptr, for handle and loaded; also the content of a file never written
Null == 0
\* void* handle = nullptr
NullHandle == [path |-> "none", ver |-> 0]
\* initial value of loadtime
InitLoadtime == 0

VARIABLES
  \* --- files shared by driver and running binary, per unit
  lib,        \* [ver, mtime] of the shared object at libpath
  copy,       \* content (ver) of the file at copypath, Null if never written
  lock,       \* TRUE iff the file at lockfile exists
  src,        \* content (ver) of the per-unit implementation source
  \* --- driver: build_shared_object, per unit
  kpc,        \* position of the build run
  \* --- running binary: HotReload<T> fields, per unit
  handle,     \* [path, ver] of the open shared object, or NullHandle
  loaded,     \* ver of the implementation the cached pointer points at
  loadtime,   \* time_t loadtime
  \* --- running binary: the single user thread
  pc,         \* position inside get()
  cur,        \* unit whose get() is running
  statm,      \* lib.st_mtime read by stat(libpath, &lib)
  branch,     \* which way assure_loaded went in the running / last call
  result,     \* pointer returned by the last completed get()
  \* --- history
  copyFresh,  \* TRUE iff copypath was written since the last dlopen
  entry,      \* handle, loaded, loadtime, copy as they were at call time
  quiet,      \* no build of cur was in flight at call time or started since
  \* --- environment
  now,        \* wall clock in seconds
  \* --- driver: the watcher callback and what its last run did
  edit,       \* the program in the source file: name -> method, or Invalid
  event,      \* kind of the last watch event handled
  warns,      \* warn() calls of the last handler run
  infos,      \* info() calls of the last handler run
  errors,     \* error() calls of the last handler run
  \* --- driver, browser backend
  knownPatches, \* Map<string, JsCode>, in insertion order
  sent,       \* patches handed to broadcastPatch by the last handler run
  initProgram, \* app.get(INIT_PROGRAM): the program served with the page
  \* --- driver, native backend
  known_patches, \* name -> [signature, impl] of the last successful build
  builds,     \* units handed to build_shared_object by the last handler run
  live,       \* name -> impl that is in the unit's lib
  \* --- driver: main()
  driver,     \* position of main(): "main", "compiled", "watching", "exited"
  exitCode,   \* argument of process.exit, NoExit while the process runs
  started,    \* runtime whose start() main has called, "none" before
  \* --- history of the build runs of one unit
  runlog,     \* what was loaded when the last run started, and how runs ended
  \* --- driver: one run of the lowering in compile.ts
  source,     \* members of the program class, in source order
  gen,        \* the CppCodeGenerator of the last compileNative, or NoGen
  prev,       \* the CppCodeGenerator of the compileNative before that
  tu,         \* the main translation unit assembled from gen
  cpc,        \* position: "source", "compiled", "recompiled", "assembled"
  \* --- driver: build_shared_object runs of concurrent change events
  rpc,        \* position of each run on the one unit they build
  clients     \* the browsers: where each is, and the patch it runs per name

\* entry outside a call
NoEntry == [handle |-> NullHandle, loaded |-> Null, loadtime |-> InitLoadtime,
            copy |-> Null]

hvars == <<lib, copy, lock, src, kpc, handle, loaded, loadtime, pc, cur,
           statm, branch, result, copyFresh, entry, quiet, now>>

\* the driver process runs
NoExit == -1

\* runlog before any build run
NoRun == [failed |-> FALSE, everFailed |-> FALSE, synced |-> FALSE,
          loaded |-> Null, loadtime |-> InitLoadtime]

dvars == <<driver, exitCode, started, runlog>>

cvars == <<source, gen, prev, tu, cpc>>

svars == <<cvars, rpc, clients>>

wvars == <<edit, event, warns, infos, errors, knownPatches, sent, initProgram,
           known_patches, builds, live, dvars>>

rvars == <<wvars, svars>>

vars == <<hvars, rvars>>

HInit ==
  /\ lib = [u \in Units |-> [ver |-> 1, mtime |-> 1]]
  /\ copy = [u \in Units |-> Null]
  /\ lock = [u \in Units |-> FALSE]
  /\ src = [u \in Units |-> 1]
  /\ kpc = [u \in Units |-> "idle"]
  /\ handle = [u \in Units |-> NullHandle]
  /\ loaded = [u \in Units |-> Null]
  /\ loadtime = [u \in Units |-> InitLoadtime]
  /\ pc = "idle"
  /\ cur = "scale"
  /\ statm = 0
  /\ branch = "none"
  /\ result = Null
  /\ copyFresh = [u \in Units |-> FALSE]
  /\ entry = NoEntry
  /\ quiet = FALSE
  /\ now = 1

\* ------------------------------------------------------------ the clock
Tick ==
  /\ now < MaxTime
  /\ now' = now + 1
  /\ UNCHANGED <<lib, copy, lock, src, kpc, handle, loaded, loadtime, pc, cur,
                 statm, branch, result, copyFresh, entry, quiet>>
  /\ UNCHANGED rvars

\* ------------------------------------------- driver: build_shared_object
\* 1. create lock (exclusive; fail if it already exists)
BuildStart(u) ==
  /\ kpc[u] = "idle"
  /\ src[u] < MaxSrc
  /\ ~lock[u]
  /\ lock' = [lock EXCEPT ![u] = TRUE]
  /\ kpc' = [kpc EXCEPT ![u] = "locked"]
  /\ quiet' = (quiet /\ u # cur)
  /\ UNCHANGED <<lib, copy, src, handle, loaded, loadtime, pc, cur, statm,
                 branch, result, copyFresh, entry, now>>
  /\ UNCHANGED rvars

\* 2. write the source file to src
WriteSrc(u) ==
  /\ kpc[u] = "locked"
  /\ src' = [src EXCEPT ![u] = src[u] + 1]
  /\ kpc' = [kpc EXCEPT ![u] = "written"]
  /\ UNCHANGED <<lib, copy, lock, handle, loaded, loadtime, pc, cur, statm,
                 branch, result, copyFresh, entry, quiet, now>>
  /\ UNCHANGED rvars

\* 3. invoke the compiler; on success move the object over out_lib
CompileOk(u) ==
  /\ kpc[u] = "written"
  /\ lib' = [lib EXCEPT ![u] = [ver |-> src[u], mtime |-> now]]
  /\ kpc' = [kpc EXCEPT ![u] = "built"]
  /\ UNCHANGED <<copy, lock, src, handle, loaded, loadtime, pc, cur, statm,
                 branch, result, copyFresh, entry, quiet, now>>
  /\ UNCHANGED rvars

\* variant: a failed compile ends the run at once, the lock is left behind
CompileFail_KeepsLock(u) ==
  /\ kpc[u] = "written"
  /\ kpc' = [kpc EXCEPT ![u] = "idle"]
  /\ UNCHANGED <<lib, copy, lock, src, handle, loaded, loadtime, pc, cur,
                 statm, branch, result, copyFresh, entry, quiet, now>>
  /\ UNCHANGED rvars

\* 5. on compiler failure out_lib is not touched
CompileFail(u) ==
  /\ kpc[u] = "written"
  /\ kpc' = [kpc EXCEPT ![u] = "failed"]
  /\ UNCHANGED <<lib, copy, lock, src, handle, loaded, loadtime, pc, cur,
                 statm, branch, result, copyFresh, entry, quiet, now>>
  /\ UNCHANGED rvars

\* 4. / 5. delete lock
Unlock(u) ==
  /\ kpc[u] \in {"built", "failed"}
  /\ lock' = [lock EXCEPT ![u] = FALSE]
  /\ kpc' = [kpc EXCEPT ![u] = "idle"]
  /\ UNCHANGED <<lib, copy, src, handle, loaded, loadtime, pc, cur, statm,
                 branch, result, copyFresh, entry, quiet, now>>
  /\ UNCHANGED rvars

\* lib holds bytes written by a build whose lock is still there
LibUnpublished(u) == lock[u] /\ kpc[u] = "built"

\* variant: a reload happens only when an object is already open
GetCall_ReloadOnly(u) ==
  /\ pc = "idle"
  /\ cur' = u
  /\ statm' = lib[u].mtime
  /\ entry' = [handle |-> handle[u], loaded |-> loaded[u],
               loadtime |-> loadtime[u], copy |-> copy[u]]
  /\ IF handle[u] # NullHandle /\ loadtime[u] # lib[u].mtime
       THEN pc' = "lockcheck" /\ branch' = "none"
       ELSE pc' = "ret" /\ branch' = "fast"
  /\ quiet' = (kpc[u] = "idle")
  /\ UNCHANGED <<lib, copy, lock, src, kpc, handle, loaded, loadtime, result,
                 copyFresh, now>>
  /\ UNCHANGED rvars

\* --------------------------------------- running binary: HotReload::get
\* get() enters assure_loaded: stat(libpath, &lib); loadtime != lib.st_mtime
GetCall(u) ==
  /\ pc = "idle"
  /\ cur' = u
  /\ statm' = lib[u].mtime
  /\ entry' = [handle |-> handle[u], loaded |-> loaded[u],
               loadtime |-> loadtime[u], copy |-> copy[u]]
  /\ IF loadtime[u] # lib[u].mtime
       THEN pc' = "lockcheck" /\ branch' = "none"
       ELSE pc' = "ret" /\ branch' = "fast"
  /\ quiet' = (kpc[u] = "idle")
  /\ UNCHANGED <<lib, copy, lock, src, kpc, handle, loaded, loadtime, result,
                 copyFresh, now>>
  /\ UNCHANGED rvars

\* variant: the lock file is not consulted
GetLockCheck_NoLock ==
  /\ pc = "lockcheck"
  /\ pc' = "dlclose" /\ branch' = "reload"
  /\ UNCHANGED <<lib, copy, lock, src, kpc, handle, loaded, loadtime, cur,
                 statm, result, copyFresh, entry, quiet, now>>
  /\ UNCHANGED rvars

\* variant: a lock file that is found is taken for stale and removed
GetLockCheck_ClearsLock ==
  /\ pc = "lockcheck"
  /\ IF lock[cur]
       THEN pc' = "ret" /\ branch' = "locked"
       ELSE pc' = "dlclose" /\ branch' = "reload"
  /\ lock' = [lock EXCEPT ![cur] = FALSE]
  /\ UNCHANGED <<lib, copy, src, kpc, handle, loaded, loadtime, cur,
                 statm, result, copyFresh, entry, quiet, now>>
  /\ UNCHANGED rvars

\* if (lockfile_exists()) return;
GetLockCheck ==
  /\ pc = "lockcheck"
  /\ IF lock[cur]
       THEN pc' = "ret" /\ branch' = "locked"
       ELSE pc' = "dlclose" /\ branch' = "reload"
  /\ UNCHANGED <<lib, copy, lock, src, kpc, handle, loaded, loadtime, cur,
                 statm, result, copyFresh, entry, quiet, now>>
  /\ UNCHANGED rvars

\* variant: closing the old object also forgets when it was loaded
GetDlclose_ResetsLoadtime ==
  /\ pc = "dlclose"
  /\ IF handle[cur] # NullHandle
       THEN \E ok \in BOOLEAN :
              IF ok THEN /\ handle' = [handle EXCEPT ![cur] = NullHandle]
                         /\ loadtime' = [loadtime EXCEPT ![cur] = InitLoadtime]
                         /\ pc' = "copy"
                    ELSE /\ UNCHANGED <<handle, loadtime>>
                         /\ pc' = "dead"
       ELSE /\ UNCHANGED <<handle, loadtime>>
            /\ pc' = "copy"
  /\ UNCHANGED <<lib, copy, lock, src, kpc, loaded, cur, statm,
                 branch, result, copyFresh, entry, quiet, now>>
  /\ UNCHANGED rvars

\* if (handle != nullptr) { if (dlclose(handle)) die(...); handle = nullptr; }
GetDlclose ==
  /\ pc = "dlclose"
  /\ IF handle[cur] # NullHandle
       THEN \E ok \in BOOLEAN :
              IF ok THEN /\ handle' = [handle EXCEPT ![cur] = NullHandle]
                         /\ pc' = "copy"
                    ELSE /\ handle' = handle
                         /\ pc' = "dead"
       ELSE /\ handle' = handle
            /\ pc' = "copy"
  /\ UNCHANGED <<lib, copy, lock, src, kpc, loaded, loadtime, cur, statm,
                 branch, result, copyFresh, entry, quiet, now>>
  /\ UNCHANGED rvars

\* variant: the copy is made only when copypath does not exist yet
GetCopy_OnlyFirst ==
  /\ pc = "copy"
  /\ IF copy[cur] = Null
       THEN /\ copy' = [copy EXCEPT ![cur] = lib[cur].ver]
            /\ copyFresh' = [copyFresh EXCEPT ![cur] = TRUE]
       ELSE UNCHANGED <<copy, copyFresh>>
  /\ pc' = "dlopen"
  /\ UNCHANGED <<lib, lock, src, kpc, handle, loaded, loadtime, cur, statm,
                 branch, result, entry, quiet, now>>
  /\ UNCHANGED rvars

\* variant: every unit copies to one and the same path
GetCopy_SharedPath ==
  /\ pc = "copy"
  /\ copy' = [u \in Units |-> lib[cur].ver]
  /\ copyFresh' = [copyFresh EXCEPT ![cur] = TRUE]
  /\ pc' = "dlopen"
  /\ UNCHANGED <<lib, lock, src, kpc, handle, loaded, loadtime, cur, statm,
                 branch, result, entry, quiet, now>>
  /\ UNCHANGED rvars

\* copy_file(libpath, copypath);
GetCopy ==
  /\ pc = "copy"
  /\ copy' = [copy EXCEPT ![cur] = lib[cur].ver]
  /\ copyFresh' = [copyFresh EXCEPT ![cur] = TRUE]
  /\ pc' = "dlopen"
  /\ UNCHANGED <<lib, lock, src, kpc, handle, loaded, loadtime, cur, statm,
                 branch, result, entry, quiet, now>>
  /\ UNCHANGED rvars

\* variant: the symbol is looked up by the first load only
GetDlopen_LooksUpOnce ==
  /\ pc = "dlopen"
  /\ copyFresh' = [copyFresh EXCEPT ![cur] = FALSE]
  /\ \E ok \in BOOLEAN :
       IF ok THEN /\ handle' = [handle EXCEPT
                                  ![cur] = [path |-> "copy", ver |-> copy[cur]]]
                  /\ loadtime' = [loadtime EXCEPT ![cur] = statm]
                  /\ pc' = IF loaded[cur] = Null THEN "dlsym" ELSE "ret"
             ELSE /\ handle' = [handle EXCEPT ![cur] = NullHandle]
                  /\ loadtime' = loadtime
                  /\ pc' = "dead"
  /\ UNCHANGED <<lib, copy, lock, src, kpc, loaded, cur, statm, branch,
                 result, entry, quiet, now>>
  /\ UNCHANGED rvars

\* handle = dlopen(copypath, ...); if (handle == nullptr) die(...);
\* loadtime = lib.st_mtime;
GetDlopen ==
  /\ pc = "dlopen"
  /\ copyFresh' = [copyFresh EXCEPT ![cur] = FALSE]
  /\ \E ok \in BOOLEAN :
       IF ok THEN /\ handle' = [handle EXCEPT
                                  ![cur] = [path |-> "copy", ver |-> copy[cur]]]
                  /\ loadtime' = [loadtime EXCEPT ![cur] = statm]
                  /\ pc' = "dlsym"
             ELSE /\ handle' = [handle EXCEPT ![cur] = NullHandle]
                  /\ loadtime' = loadtime
                  /\ pc' = "dead"
  /\ UNCHANGED <<lib, copy, lock, src, kpc, loaded, cur, statm, branch,
                 result, entry, quiet, now>>
  /\ UNCHANGED rvars

\* variant: a symbol that does not resolve is returned as a null pointer
GetDlsym_ReturnsNull ==
  /\ pc = "dlsym"
  /\ \E ok \in BOOLEAN :
       IF ok THEN /\ loaded' = [loaded EXCEPT ![cur] = handle[cur].ver]
                  /\ pc' = "ret"
             ELSE /\ loaded' = [loaded EXCEPT ![cur] = Null]
                  /\ pc' = "ret"
  /\ UNCHANGED <<lib, copy, lock, src, kpc, handle, loadtime, cur, statm,
                 branch, result, copyFresh, entry, quiet, now>>
  /\ UNCHANGED rvars

\* loaded = (T*)dlsym(handle, api); if (err != nullptr) die(...);
GetDlsym ==
  /\ pc = "dlsym"
  /\ \E ok \in BOOLEAN :
       IF ok THEN /\ loaded' = [loaded EXCEPT ![cur] = handle[cur].ver]
                  /\ pc' = "ret"
             ELSE /\ loaded' = [loaded EXCEPT ![cur] = Null]
                  /\ pc' = "dead"
  /\ UNCHANGED <<lib, copy, lock, src, kpc, handle, loadtime, cur, statm,
                 branch, result, copyFresh, entry, quiet, now>>
  /\ UNCHANGED rvars

\* variant: the pointer is handed out only by the call that loaded it
GetReturn_OnlyAfterReload ==
  /\ pc = "ret"
  /\ result' = IF branch = "reload" THEN loaded[cur] ELSE Null
  /\ pc' = "idle"
  /\ statm' = 0
  /\ branch' = "none"
  /\ entry' = NoEntry
  /\ quiet' = FALSE
  /\ UNCHANGED <<lib, copy, lock, src, kpc, handle, loaded, loadtime, cur,
                 copyFresh, now>>
  /\ UNCHANGED rvars

\* return loaded; the locals of the call are gone afterwards
GetReturn ==
  /\ pc = "ret"
  /\ result' = loaded[cur]
  /\ pc' = "idle"
  /\ statm' = 0
  /\ branch' = "none"
  /\ entry' = NoEntry
  /\ quiet' = FALSE
  /\ UNCHANGED <<lib, copy, lock, src, kpc, handle, loaded, loadtime, cur,
                 copyFresh, now>>
  /\ UNCHANGED rvars

Call == \E u \in Units : GetCall(u)
KStart == \E u \in Units : BuildStart(u)
KWrite == \E u \in Units : WriteSrc(u)
KCompileOk == \E u \in Units : CompileOk(u)
KCompileFail == \E u \in Units : CompileFail(u)
KUnlock == \E u \in Units : Unlock(u)

\* ======================================================== driver: watcher
\* number of distinct method bodies a known method is edited to
MaxBody == 2

\* the reloadable methods of examples/counter.ts, in source order
KnownNames == <<"scale", "shift">>
\* reloadable methods an edit may add
NewNames == <<"twice", "negate">>
NameOrder == KnownNames \o NewNames
Names == {NameOrder[i] : i \in 1..Len(NameOrder)}
Known == {KnownNames[i] : i \in 1..Len(KnownNames)}

\* parameter counts a known method is edited to have: shift(a), shift(a, b)
ParamCounts == {1, 2}

\* a method of the program class: "number" is the only type, so its
\* parameter count and its body are all that an edit can change
Absent == [params |-> 0, body |-> 0]
Methods(n) ==
  IF n \in Known THEN [params : ParamCounts, body : 1..MaxBody]
                 ELSE {[params |-> 1, body |-> 1]}
\* the programs that pass createProgram and findUserProgram
Programs ==
  {p \in [Names -> UNION {Methods(n) : n \in Names} \cup {Absent}] :
     \A n \in Names : p[n] \in Methods(n) \cup {Absent}}
\* a source file that does not
Invalid == [n \in Names |-> [params |-> 0, body |-> -1]]

InitialProgram ==
  [n \in Names |-> IF n \in Known THEN [params |-> 1, body |-> 1]
                                  ELSE Absent]

\* ---- Map<K, V>: a sequence of entries in insertion order
MapHas(m, k) == \E i \in 1..Len(m) : m[i].k = k
MapGet(m, k) == (CHOOSE e \in {m[i] : i \in 1..Len(m)} : e.k = k).v
MapSet(m, k, v) ==
  IF MapHas(m, k)
    THEN [i \in 1..Len(m) |-> IF m[i].k = k THEN [k |-> k, v |-> v] ELSE m[i]]
    ELSE Append(m, [k |-> k, v |-> v])
MapDelete(m, k) == SelectSeq(m, LAMBDA e : e.k # k)
MapKeys(m) == [i \in 1..Len(m) |-> m[i].k]
MapKeySet(m) == {m[i].k : i \in 1..Len(m)}

\* ---- browser backend
\* the patch text: types are erased by ts.transpile, parameters and body stay
JsPatch(name, m) == [name |-> name, params |-> m.params, body |-> m.body]

RECURSIVE PatchesFrom(_, _)
PatchesFrom(prog, i) ==
  IF i = 0 THEN <<>>
  ELSE LET n == NameOrder[i]
           before == PatchesFrom(prog, i - 1)
       IN IF prog[n] = Absent THEN before
          ELSE MapSet(before, n, JsPatch(n, prog[n]))

compileBrowserPatches(prog) == PatchesFrom(prog, Len(NameOrder))

\* variant: every known name present in the new map is broadcast
ReconcileKnown_Always(keys, i, st) ==
  LET hr == keys[i]
      uPatch == MapGet(st.new, hr)
  IN [st EXCEPT !.sent = Append(@, uPatch),
                !.known = MapSet(@, hr, uPatch),
                !.infos = Append(@, hr),
                !.new = MapDelete(@, hr)]

\* variant: a changed patch is broadcast and not recorded
ReconcileKnown_SendsOnly(keys, i, st) ==
  LET hr == keys[i]
      uPatch == MapGet(st.new, hr)
      st1 == IF uPatch # MapGet(st.known, hr)
               THEN [st EXCEPT !.sent = Append(@, uPatch),
                               !.infos = Append(@, hr)]
               ELSE st
  IN [st1 EXCEPT !.new = MapDelete(@, hr)]

\* variant: an unchanged patch is recorded again and broadcast again
ReconcileKnown_Resends(keys, i, st) ==
  LET hr == keys[i]
      uPatch == MapGet(st.new, hr)
      st1 == IF uPatch.body >= MapGet(st.known, hr).body
               THEN [st EXCEPT !.sent = Append(@, uPatch),
                               !.known = MapSet(@, hr, uPatch),
                               !.infos = Append(@, hr)]
               ELSE st
  IN [st1 EXCEPT !.new = MapDelete(@, hr)]

\* one turn of the loop over knownPatches.keys() for a key that is in the
\* new map
ReconcileKnown(keys, i, st) ==
  LET hr == keys[i]
      uPatch == MapGet(st.new, hr)
      st1 == IF uPatch # MapGet(st.known, hr)
               THEN [st EXCEPT !.sent = Append(@, uPatch),
                               !.known = MapSet(@, hr, uPatch),
                               !.infos = Append(@, hr)]
               ELSE st
  IN [st1 EXCEPT !.new = MapDelete(@, hr)]

RECURSIVE ReconcileLoop(_, _, _)
ReconcileLoop(keys, i, st) ==
  IF i > Len(keys) THEN st
  ELSE IF ~MapHas(st.new, keys[i])
    THEN [st EXCEPT !.warns = @ \o <<"deletion", "continuing">>,
                    !.returned = TRUE]
    ELSE ReconcileLoop(keys, i + 1, ReconcileKnown(keys, i, st))

\* variant: the functions left in the new map are recorded as known
ReconcileAdditions_Records(st) ==
  IF Len(st.new) > 1
    THEN [st EXCEPT !.warns = @ \o <<"addition", "continuing">>,
                    !.known = @ \o st.new]
    ELSE [st EXCEPT !.known = @ \o st.new]

\* if (newPatches.size > 1) { warn(...); warn(...); }
ReconcileAdditions(st) ==
  IF Len(st.new) > 1
    THEN [st EXCEPT !.warns = @ \o <<"addition", "continuing">>]
    ELSE st

reconcileChangedHotReloadable(known, new) ==
  LET st0 == [known |-> known, new |-> new, sent |-> <<>>, warns |-> <<>>,
              infos |-> <<>>, returned |-> FALSE]
      st1 == ReconcileLoop(MapKeys(known), 1, st0)
  IN IF st1.returned THEN st1 ELSE ReconcileAdditions(st1)

\* ---- native backend
\* variant: the signature is the return type alone
genHotReload_RetOnly(name, m) ==
  [name |-> name,
   signature |-> [ret |-> "int", params |-> <<>>],
   impl |-> [params |-> m.params, body |-> m.body]]

\* HotReloadFunction: signature = `${cRetTy}(${cParamTys})`, and the emitted
\* implementation with its parameter list and body
genHotReload(name, m) ==
  [name |-> name,
   signature |-> [ret |-> "int", params |-> [i \in 1..m.params |-> "int"]],
   impl |-> [params |-> m.params, body |-> m.body]]

compileNative(prog) ==
  [n \in {x \in Names : prog[x] # Absent} |-> genHotReload(n, prog[n])]

NDeleted(known, new) == {n \in DOMAIN known : n \notin DOMAIN new}
NSigChanged(known, new) ==
  {n \in DOMAIN known \cap DOMAIN new : new[n].signature # known[n].signature}
NBodyChanged(known, new) ==
  {n \in DOMAIN known \cap DOMAIN new :
     new[n].signature = known[n].signature /\ new[n].impl # known[n].impl}
NAdded(known, new) == {n \in DOMAIN new : n \notin DOMAIN known}
\* the units build_shared_object is invoked for
NBuilds(known, new) ==
  IF NDeleted(known, new) # {} \/ NSigChanged(known, new) # {}
    THEN {}
    ELSE NBodyChanged(known, new)

\* step 3 of the watcher: reconcile the fresh map against known_patches;
\* fails is the set of units whose compiler run fails
reconcileNative(known, lv, new, fails) ==
  LET changed == NBuilds(known, new)
      st0 == [known |-> known, live |-> lv, builds |-> {}, warns |-> <<>>,
              errors |-> <<>>]
  IN IF NDeleted(known, new) # {}
       THEN [st0 EXCEPT !.warns = <<"deletion">>]
     ELSE IF NSigChanged(known, new) # {}
       THEN [st0 EXCEPT !.warns = <<"signature">>]
     ELSE [known |-> [n \in DOMAIN known |->
                        IF n \in changed \ fails THEN new[n] ELSE known[n]],
           live |-> [n \in DOMAIN lv |->
                        IF n \in changed \ fails THEN new[n].impl ELSE lv[n]],
           builds |-> changed,
           warns |-> IF NAdded(known, new) # {} THEN <<"addition">> ELSE <<>>,
           errors |-> IF changed \cap fails # {} THEN <<"toolchain">>
                                                 ELSE <<>>]

\* ---- compile.ts: the native lowering, member by member
\* const HOTRELOAD = 'hotreload'
HOTRELOAD == "hotreload"
\* the value of a call that threw (fatal, or a TypeError)
Fatal == "fatal"
\* a declaration without a type annotation
NoType == <<>>
\* a type node: a keyword alone, or the name of a type reference followed by
\* its one type argument
TypeNodes == {<<"number">>, <<"string">>, <<"Promise", "number">>,
              <<"Array", "number">>}
MethodNames == {"main", "f", "g"}
\* the decorators of a member; <<>> is "decorators === undefined"
DecoratorLists == {<<>>, <<HOTRELOAD>>, <<"memo">>, <<HOTRELOAD, "memo">>,
                   <<HOTRELOAD, HOTRELOAD>>}

\* expressions: a numeric literal, an identifier, a call of an identifier
Lit == [kind |-> "lit", name |-> "1", args |-> <<>>]
Ident(n) == [kind |-> "id", name |-> n, args |-> <<>>]
CallOf(n, args) == [kind |-> "call", name |-> n, args |-> args]
\* statements: variable statement, expression statement, return statement
VarStmt(n, ty, e) == [kind |-> "var", name |-> n, type |-> ty, expr |-> e]
ExprStmt(e) == [kind |-> "expr", name |-> "", type |-> NoType, expr |-> e]
ReturnStmt(e) == [kind |-> "return", name |-> "", type |-> NoType, expr |-> e]
\* let x = f(); print(f()); return x;
DefaultBody == <<VarStmt("x", NoType, CallOf("f", <<>>)),
                 ExprStmt(CallOf("print", <<CallOf("f", <<>>)>>)),
                 ReturnStmt(Ident("x"))>>
\* print(num: number) of HotReloadProgram, with its parameter count
Ambient == [print |-> 1]

\* members of the class, methods already rewritten to functions
Method(n, decs, ty, params, body) ==
  [kind |-> "method", name |-> n, decorators |-> decs, type |-> ty,
   parameters |-> params, body |-> body]
DefaultMethod(n, decs) == Method(n, decs, <<"number">>, <<>>, DefaultBody)
Property ==
  [kind |-> "property", name |-> "k", decorators |-> <<>>,
   type |-> <<"number">>, parameters |-> <<>>, body |-> <<>>]

\* programs of methods that differ in name and reload marker only: every
\* order of every choice of the names, and two programs that implement a
\* name twice
BasePrograms ==
  {b \in UNION {[1..k -> {DefaultMethod(n, d) :
                            n \in MethodNames, d \in {<<>>, <<HOTRELOAD>>}}] :
                  k \in 1..Cardinality(MethodNames)} :
     \A i, j \in DOMAIN b : i # j => b[i].name # b[j].name}
    \cup {<<DefaultMethod("main", <<>>), DefaultMethod("main", <<>>)>>,
          <<DefaultMethod("f", <<>>), DefaultMethod("main", <<>>),
            DefaultMethod("f", <<HOTRELOAD>>)>>}
\* a member that differs from m in one place
Variants(m) ==
  {[m EXCEPT !.decorators = d] : d \in DecoratorLists}
    \cup {[m EXCEPT !.type = t] : t \in TypeNodes \cup {NoType}}
    \cup {[m EXCEPT !.parameters = <<[name |-> "a", type |-> t]>>] :
            t \in TypeNodes \cup {NoType}}
    \cup {[m EXCEPT !.body = <<VarStmt("y", t, Lit), ReturnStmt(Ident("y"))>>] :
            t \in TypeNodes \cup {NoType}}
    \cup {Property}
\* the program classes the lowering is run on
SrcPrograms ==
  UNION {UNION {{[b EXCEPT ![i] = v] : v \in Variants(b[i])} :
                  i \in DOMAIN b} : b \in BasePrograms}

\* the calls of an expression, at every depth
RECURSIVE CallsIn(_)
CallsIn(e) ==
  IF e.kind = "call"
    THEN {[name |-> e.name, argc |-> Len(e.args)]}
           \cup UNION {CallsIn(e.args[i]) : i \in DOMAIN e.args}
    ELSE {}

\* createProgram: getSemanticDiagnostics is not empty. The diagnostics
\* that the programs can draw: two implementations of one name, the
\* abstract main() not implemented or implemented with parameters, a call
\* of a name that is no method of the class or of its base, a call with
\* the wrong number of arguments, a literal assigned to a variable
\* annotated with another type than number
createProgramFails(members) ==
  LET methods == {i \in DOMAIN members : members[i].kind = "method"}
      arity(n) == IF n \in DOMAIN Ambient THEN {Ambient[n]}
                  ELSE {Len(members[i].parameters) :
                          i \in {j \in methods : members[j].name = n}}
  IN \/ \E i, j \in DOMAIN members :
          i # j /\ members[i].name = members[j].name
     \/ ~ \E i \in methods : members[i].name = "main"
     \/ \E i \in methods :
          members[i].name = "main" /\ members[i].parameters # <<>>
     \/ \E i \in methods : \E k \in DOMAIN members[i].body :
          \/ \E c \in CallsIn(members[i].body[k].expr) :
               c.argc \notin arity(c.name)
          \/ /\ members[i].body[k].kind = "var"
             /\ members[i].body[k].expr.kind = "lit"
             /\ members[i].body[k].type \notin {NoType, <<"number">>}

\* variant: only the first decorator is looked at
isMarkedHotReload_FirstOnly(m) ==
  IF Len(m.decorators) = 0 THEN "false"
  ELSE IF m.decorators[1] # HOTRELOAD THEN Fatal
  ELSE "true"

\* "false", "true", or Fatal
isMarkedHotReload(m) ==
  IF Len(m.decorators) = 0 THEN "false"
  ELSE IF Len(m.decorators) > 1 THEN Fatal
  ELSE IF m.decorators[1] # HOTRELOAD THEN Fatal
  ELSE "true"

RECURSIVE genType(_)
genType(ty) ==
  IF ty = <<"number">> THEN "int"
  ELSE IF Len(ty) > 1 /\ ty[1] = "Promise" THEN genType(Tail(ty))
  ELSE Fatal

\* [type, name]
genParam(p) ==
  [ty |-> IF p.type = NoType THEN Fatal ELSE genType(p.type),
   name |-> p.name]

\* `${callName}${callNameSuffix}(${cArgs.join(', ')})`, or the literal's text
RECURSIVE genExpr(_, _)
genExpr(e, hotReloadCallNames) ==
  IF e.kind = "call"
    THEN [text |-> e.name,
          suffix |-> IF e.name \in hotReloadCallNames THEN ".get()" ELSE "",
          args |-> [i \in 1..Len(e.args) |->
                      genExpr(e.args[i], hotReloadCallNames)],
          call |-> TRUE]
    ELSE [text |-> e.name, suffix |-> "", args |-> <<>>, call |-> FALSE]

\* variant: the initializer of a declaration is lowered without the
\* call-site rewrite
genVarDecl_PlainInit(decl, hotReloadCallNames) ==
  [kind |-> "var",
   ty |-> IF decl.type = NoType THEN "auto" ELSE genType(decl.type),
   name |-> decl.name,
   expr |-> genExpr(decl.expr, {})]

\* `${cTy} ${cName}${cInit}`
genVarDecl(decl, hotReloadCallNames) ==
  [kind |-> "var",
   ty |-> IF decl.type = NoType THEN "auto" ELSE genType(decl.type),
   name |-> decl.name,
   expr |-> genExpr(decl.expr, hotReloadCallNames)]

genStmt(stmt, hotReloadCallNames) ==
  IF stmt.kind = "var"
    THEN genVarDecl(stmt, hotReloadCallNames)
    ELSE [kind |-> stmt.kind, ty |-> "", name |-> "",
          expr |-> genExpr(stmt.expr, hotReloadCallNames)]

\* some part of an emitted function threw
Throws(cTy, cParams, cBody) ==
  \/ cTy = Fatal
  \/ \E i \in DOMAIN cParams : cParams[i].ty = Fatal
  \/ \E i \in DOMAIN cBody : cBody[i].ty = Fatal

\* `${cTy} ${cName}(${cParams}) {\n${cBody}\n}`
genFunction(fn, hotReloadCallNames) ==
  LET cTy == IF fn.type = NoType THEN "auto" ELSE genType(fn.type)
      cParams == [i \in DOMAIN fn.parameters |-> genParam(fn.parameters[i])]
      cBody == [i \in DOMAIN fn.body |->
                  genStmt(fn.body[i], hotReloadCallNames)]
  IN [fatal |-> Throws(cTy, cParams, cBody), linkage |-> "", ret |-> cTy,
      name |-> fn.name, params |-> cParams, body |-> cBody]

\* name, signature `${cRetTy}(${cParamTys})` and impl of a reloadable method
genHotReloadFunction(fn, hotReloadCallNames) ==
  LET cRetTy == IF fn.type = NoType THEN Fatal ELSE genType(fn.type)
      cParams == [i \in DOMAIN fn.parameters |-> genParam(fn.parameters[i])]
      cBody == [i \in DOMAIN fn.body |->
                  genStmt(fn.body[i], hotReloadCallNames)]
  IN [fatal |-> Throws(cRetTy, cParams, cBody),
      name |-> fn.name,
      signature |-> [ret |-> cRetTy,
                     params |-> [i \in DOMAIN cParams |-> cParams[i].ty]],
      impl |-> [linkage |-> "extern C", ret |-> cRetTy, name |-> fn.name,
                params |-> cParams, body |-> cBody]]

\* no emitted function
NoFn == [fatal |-> FALSE, linkage |-> "", ret |-> "", name |-> "",
         params |-> <<>>, body |-> <<>>]
\* no generator yet
NoGen == [fatal |-> FALSE, main |-> NoFn, topLevels |-> <<>>,
          hotReload |-> <<>>]
\* compileNative threw
FatalGen == [NoGen EXCEPT !.fatal = TRUE]

\* variant: the array of top-level functions is shared by all generators
CppCodeGeneratorImpl_SharedTopLevels(callNames, main, topLevels, hotReloadFunctions) ==
  LET m == genFunction(main, callNames)
      tls == [i \in DOMAIN topLevels |->
                genFunction(topLevels[i], callNames)]
      hrs == [i \in DOMAIN hotReloadFunctions |->
                genHotReloadFunction(hotReloadFunctions[i], callNames)]
  IN IF \/ m.fatal
        \/ \E i \in DOMAIN tls : tls[i].fatal
        \/ \E i \in DOMAIN hrs : hrs[i].fatal
       THEN FatalGen
       ELSE [fatal |-> FALSE, main |-> m, topLevels |-> gen.topLevels \o tls,
             hotReload |-> hrs]

\* the constructor: main, then the static functions, then the reloadable ones
CppCodeGeneratorImpl(callNames, main, topLevels, hotReloadFunctions) ==
  LET m == genFunction(main, callNames)
      tls == [i \in DOMAIN topLevels |->
                genFunction(topLevels[i], callNames)]
      hrs == [i \in DOMAIN hotReloadFunctions |->
                genHotReloadFunction(hotReloadFunctions[i], callNames)]
  IN IF \/ m.fatal
        \/ \E i \in DOMAIN tls : tls[i].fatal
        \/ \E i \in DOMAIN hrs : hrs[i].fatal
       THEN FatalGen
       ELSE [fatal |-> FALSE, main |-> m, topLevels |-> tls,
             hotReload |-> hrs]

\* variant: a method named main is taken as main whatever its decorators
compileMember_AnyMain(member, st) ==
  IF member.kind # "method" THEN [st EXCEPT !.fatal = TRUE]
  ELSE LET isHotReload == isMarkedHotReload(member)
       IN IF isHotReload = Fatal THEN [st EXCEPT !.fatal = TRUE]
          ELSE IF member.name = "main"
            THEN [st EXCEPT !.main = <<member>>]
          ELSE IF isHotReload = "true"
            THEN [st EXCEPT !.hotReloadFunctions = Append(@, member)]
          ELSE [st EXCEPT !.staticFunctions = Append(@, member)]

\* one round of the loop over userProgram.members
compileMember(member, st) ==
  IF member.kind # "method" THEN [st EXCEPT !.fatal = TRUE]
  ELSE LET isHotReload == isMarkedHotReload(member)
       IN IF isHotReload = Fatal THEN [st EXCEPT !.fatal = TRUE]
          ELSE IF member.name = "main"
            THEN IF isHotReload = "true"
                   THEN [st EXCEPT !.fatal = TRUE]
                   ELSE [st EXCEPT !.main = <<member>>]
          ELSE IF isHotReload = "true"
            THEN [st EXCEPT !.hotReloadFunctions = Append(@, member)]
          ELSE [st EXCEPT !.staticFunctions = Append(@, member)]

RECURSIVE compileMembers(_, _, _)
compileMembers(members, i, st) ==
  IF i > Len(members) \/ st.fatal THEN st
  ELSE compileMembers(members, i + 1, compileMember(members[i], st))

\* compileNative on the members of the class; without a main the
\* constructor's genFunction(undefined) throws
compileNativeMembers(members) ==
  IF createProgramFails(members) THEN FatalGen
  ELSE LET st == compileMembers(members, 1,
                   [fatal |-> FALSE, main |-> <<>>,
                    hotReloadFunctions |-> <<>>, staticFunctions |-> <<>>])
           hotReloadCallNames ==
             {st.hotReloadFunctions[i].name :
                i \in DOMAIN st.hotReloadFunctions}
       IN IF st.fatal \/ st.main = <<>> THEN FatalGen
          ELSE CppCodeGeneratorImpl(hotReloadCallNames, st.main[1],
                                    st.staticFunctions,
                                    st.hotReloadFunctions)

\* the paths the runtime allocates for a reloadable function
PathsFor(name) == [lib |-> <<name, "lib">>, copy |-> <<name, "copy">>,
                   lock |-> <<name, "lock">>]

\* `HotReload<${signature}> ${cName}("${cName}", objFile, objCopyFile,
\* lockFile);`
genTopLevelDefinition(hr, paths) ==
  [linkage |-> "HotReload", signature |-> hr.signature, name |-> hr.name,
   paths |-> paths]

\* the main translation unit as --show-generated prints it: the wiring
\* declarations, the static functions, main
MainTU(g) ==
  [i \in DOMAIN g.hotReload |->
     [kind |-> "wiring", name |-> g.hotReload[i].name,
      text |-> genTopLevelDefinition(g.hotReload[i],
                                     PathsFor(g.hotReload[i].name))]]
    \o [i \in DOMAIN g.topLevels |->
          [kind |-> "static", name |-> g.topLevels[i].name,
           text |-> g.topLevels[i]]]
    \o <<[kind |-> "main", name |-> g.main.name, text |-> g.main]>>

\* two change events for one unit are handled at the same time
Runs == {1, 2}

\* the browsers that may show the page
Clients == {"c1", "c2"}
\* a browser that has not requested the page runs nothing
NoClient == [pos |-> "none", runs |-> [n \in Known |-> JsPatch(n, Absent)]]

\* nothing has been lowered
CIdle ==
  /\ source = <<>>
  /\ gen = NoGen
  /\ prev = NoGen
  /\ tu = <<>>
  /\ cpc = "none"
  /\ rpc = [r \in Runs |-> "idle"]
  /\ clients = [c \in Clients |-> NoClient]

RInit ==
  /\ edit = InitialProgram
  /\ event = "none"
  /\ warns = <<>>
  /\ infos = <<>>
  /\ errors = <<>>
  /\ knownPatches = compileBrowserPatches(InitialProgram)
  /\ sent = <<>>
  /\ initProgram = InitialProgram
  /\ known_patches = compileNative(InitialProgram)
  /\ builds = {}
  /\ live = [n \in Known |-> compileNative(InitialProgram)[n].impl]
  /\ driver = "watching"
  /\ exitCode = NoExit
  /\ started = "none"
  /\ runlog = NoRun

\* variant: a deleted name is reported with fatal(), which throws out of
\* the callback
WChange_FatalOnDeletion ==
  /\ driver = "watching"
  /\ \E prog \in Programs :
    LET r == reconcileChangedHotReloadable(knownPatches,
                                           compileBrowserPatches(prog))
    IN /\ edit' = prog
       /\ event' = "change"
       /\ knownPatches' = r.known
       /\ sent' = r.sent
       /\ warns' = r.warns
       /\ infos' = r.infos
       /\ errors' = <<>>
       /\ IF r.returned THEN driver' = "exited" /\ exitCode' = 1
                        ELSE UNCHANGED <<driver, exitCode>>
       /\ UNCHANGED <<initProgram, known_patches, builds, live, started,
                      runlog>>
       /\ UNCHANGED hvars
       /\ UNCHANGED svars

\* ---- browser: the fs.watch callback
\* case 'change', compileBrowserPatches returns
WChange ==
  /\ driver = "watching"
  /\ \E prog \in Programs :
    LET r == reconcileChangedHotReloadable(knownPatches,
                                           compileBrowserPatches(prog))
    IN /\ edit' = prog
       /\ event' = "change"
       /\ knownPatches' = r.known
       /\ sent' = r.sent
       /\ warns' = r.warns
       /\ infos' = r.infos
       /\ errors' = <<>>
       /\ UNCHANGED <<initProgram, known_patches, builds, live>>
       /\ UNCHANGED dvars
       /\ UNCHANGED hvars
       /\ UNCHANGED svars

\* variant: the patches known so far are dropped when the compile throws
WChangeThrows_Forgets ==
  /\ driver = "watching"
  /\ edit' = Invalid
  /\ event' = "throw"
  /\ errors' = <<"compile">>
  /\ warns' = <<"continuing">>
  /\ infos' = <<>>
  /\ sent' = <<>>
  /\ knownPatches' = <<>>
  /\ UNCHANGED <<initProgram, known_patches, builds, live>>
  /\ UNCHANGED dvars
  /\ UNCHANGED hvars
  /\ UNCHANGED svars

\* case 'change', compileBrowserPatches throws
WChangeThrows ==
  /\ driver = "watching"
  /\ edit' = Invalid
  /\ event' = "throw"
  /\ errors' = <<"compile">>
  /\ warns' = <<"continuing">>
  /\ infos' = <<>>
  /\ sent' = <<>>
  /\ UNCHANGED <<knownPatches, initProgram, known_patches, builds, live>>
  /\ UNCHANGED dvars
  /\ UNCHANGED hvars
  /\ UNCHANGED svars

\* variant: case 'rename' has no break and falls through into case 'change'
WRename_FallsThrough ==
  /\ driver = "watching"
  /\ LET r == reconcileChangedHotReloadable(knownPatches,
                                            compileBrowserPatches(edit))
     IN /\ event' = "rename"
        /\ knownPatches' = r.known
        /\ sent' = r.sent
        /\ warns' = <<"rename", "continuing">> \o r.warns
        /\ infos' = r.infos
        /\ errors' = <<>>
  /\ UNCHANGED <<edit, initProgram, known_patches, builds, live>>
  /\ UNCHANGED dvars
  /\ UNCHANGED hvars
  /\ UNCHANGED svars

\* case 'rename'
WRename ==
  /\ driver = "watching"
  /\ event' = "rename"
  /\ warns' = <<"rename", "continuing">>
  /\ infos' = <<>>
  /\ errors' = <<>>
  /\ sent' = <<>>
  /\ UNCHANGED <<edit, knownPatches, initProgram, known_patches, builds, live>>
  /\ UNCHANGED dvars
  /\ UNCHANGED hvars
  /\ UNCHANGED svars

NextW ==
  \/ WChange
  \/ WChangeThrows
  \/ WRename

\* ---- native: the watcher of the design document
\* a content change that parses and lowers; the compiler fails on some of
\* the units it is run for
NChange ==
  /\ driver = "watching"
  /\ \E prog \in Programs :
    \E fails \in SUBSET NBuilds(known_patches, compileNative(prog)) :
    LET r == reconcileNative(known_patches, live, compileNative(prog), fails)
    IN /\ edit' = prog
       /\ event' = "change"
       /\ known_patches' = r.known
       /\ live' = r.live
       /\ builds' = r.builds
       /\ warns' = r.warns
       /\ errors' = r.errors
       /\ infos' = <<>>
       /\ UNCHANGED <<knownPatches, sent, initProgram>>
       /\ UNCHANGED dvars
       /\ UNCHANGED hvars
       /\ UNCHANGED svars

\* a content change that fails to parse, validate or lower
NChangeThrows ==
  /\ driver = "watching"
  /\ edit' = Invalid
  /\ event' = "throw"
  /\ errors' = <<"compile">>
  /\ warns' = <<>>
  /\ infos' = <<>>
  /\ builds' = {}
  /\ UNCHANGED <<knownPatches, sent, initProgram, known_patches, live>>
  /\ UNCHANGED dvars
  /\ UNCHANGED hvars
  /\ UNCHANGED svars

\* rename or deletion of the source file
NRename ==
  /\ driver = "watching"
  /\ event' = "rename"
  /\ warns' = <<"rename">>
  /\ infos' = <<>>
  /\ errors' = <<>>
  /\ builds' = {}
  /\ UNCHANGED <<edit, knownPatches, sent, initProgram, known_patches, live>>
  /\ UNCHANGED dvars
  /\ UNCHANGED hvars
  /\ UNCHANGED svars

NextN ==
  \/ NChange
  \/ NChangeThrows
  \/ NRename


\* ---- one unit followed end to end: watcher, build run, running binary
\* the unit that is followed
EUnit == "shift"

\* the running binary has loaded what is in the unit's lib
Synced(u) ==
  /\ loadtime[u] = lib[u].mtime
  /\ loaded[u] = lib[u].ver
  /\ handle[u] = [path |-> "copy", ver |-> lib[u].ver]

\* a content change edits the body of the unit; the body differs from
\* known_patches, so build_shared_object is started: 1. create lock
EEdit ==
  /\ driver = "watching"
  /\ kpc[EUnit] = "idle"
  /\ src[EUnit] < MaxSrc
  /\ ~lock[EUnit]
  /\ \E b \in 1..MaxBody :
       LET prog == [edit EXCEPT ![EUnit].body = b]
       IN /\ NBuilds(known_patches, compileNative(prog)) = {EUnit}
          /\ edit' = prog
  /\ event' = "change"
  /\ builds' = {EUnit}
  /\ warns' = <<>>
  /\ infos' = <<>>
  /\ errors' = <<>>
  /\ lock' = [lock EXCEPT ![EUnit] = TRUE]
  /\ kpc' = [kpc EXCEPT ![EUnit] = "locked"]
  /\ quiet' = (quiet /\ EUnit # cur)
  /\ runlog' = [runlog EXCEPT !.failed = FALSE,
                              !.synced = Synced(EUnit),
                              !.loaded = loaded[EUnit],
                              !.loadtime = loadtime[EUnit]]
  /\ UNCHANGED <<knownPatches, sent, initProgram, known_patches, live,
                 driver, exitCode, started>>
  /\ UNCHANGED <<lib, copy, src, handle, loaded, loadtime, pc, cur, statm,
                 branch, result, copyFresh, entry, now>>
  /\ UNCHANGED svars

\* 2. write the source file to src
EWrite == WriteSrc(EUnit)

\* 3. the compiler succeeds: the object is moved over out_lib and
\* known_patches[name] is updated
ECompileOk ==
  /\ kpc[EUnit] = "written"
  /\ lib' = [lib EXCEPT ![EUnit] = [ver |-> src[EUnit], mtime |-> now]]
  /\ kpc' = [kpc EXCEPT ![EUnit] = "built"]
  /\ live' = [live EXCEPT ![EUnit] = compileNative(edit)[EUnit].impl]
  /\ known_patches' = [known_patches EXCEPT ![EUnit] =
                         compileNative(edit)[EUnit]]
  /\ UNCHANGED <<edit, event, warns, infos, errors, knownPatches, sent,
                 initProgram, builds, dvars>>
  /\ UNCHANGED <<copy, lock, src, handle, loaded, loadtime, pc, cur, statm,
                 branch, result, copyFresh, entry, quiet, now>>
  /\ UNCHANGED svars

\* variant: a failed compiler run leaves a truncated object at out_lib
ECompileFail_TouchesLib ==
  /\ kpc[EUnit] = "written"
  /\ kpc' = [kpc EXCEPT ![EUnit] = "failed"]
  /\ lib' = [lib EXCEPT ![EUnit] = [ver |-> lib[EUnit].ver, mtime |-> now]]
  /\ errors' = <<"toolchain">>
  /\ runlog' = [runlog EXCEPT !.failed = TRUE, !.everFailed = TRUE]
  /\ UNCHANGED <<edit, event, warns, infos, knownPatches, sent, initProgram,
                 known_patches, builds, live, driver, exitCode, started>>
  /\ UNCHANGED <<copy, lock, src, handle, loaded, loadtime, pc, cur,
                 statm, branch, result, copyFresh, entry, quiet, now>>
  /\ UNCHANGED svars

\* 5. the compiler fails: the error is logged, out_lib and known_patches
\* are not touched
ECompileFail ==
  /\ kpc[EUnit] = "written"
  /\ kpc' = [kpc EXCEPT ![EUnit] = "failed"]
  /\ errors' = <<"toolchain">>
  /\ runlog' = [runlog EXCEPT !.failed = TRUE, !.everFailed = TRUE]
  /\ UNCHANGED <<edit, event, warns, infos, knownPatches, sent, initProgram,
                 known_patches, builds, live, driver, exitCode, started>>
  /\ UNCHANGED <<lib, copy, lock, src, handle, loaded, loadtime, pc, cur,
                 statm, branch, result, copyFresh, entry, quiet, now>>
  /\ UNCHANGED svars

\* 4. / 5. delete lock
EUnlock == Unlock(EUnit)

\* the user thread calls get() on the unit
ECall == GetCall(EUnit)

NextE ==
  \/ Tick
  \/ EEdit
  \/ EWrite
  \/ ECompileOk
  \/ ECompileFail
  \/ EUnlock
  \/ ECall
  \/ GetLockCheck
  \/ GetDlclose
  \/ GetCopy
  \/ GetDlopen
  \/ GetDlsym
  \/ GetReturn

\* ---- main(): the first-pass compile and the start of the runtime
\* before a runtime has started no method has been lowered or built
NoPatch == [name |-> "none", signature |-> [ret |-> "none", params |-> <<>>],
            impl |-> Absent]
NothingKnown == [n \in Known |-> NoPatch]
NothingLive == [n \in Known |-> Absent]

\* argument of process.exit in die()
DieCode == 1

\* the file named on the command line holds any program, or none that compiles
InitD ==
  /\ HInit
  /\ edit \in Programs \cup {Invalid}
  /\ event = "none"
  /\ warns = <<>>
  /\ infos = <<>>
  /\ errors = <<>>
  /\ knownPatches = <<>>
  /\ sent = <<>>
  /\ initProgram = Invalid
  /\ known_patches = NothingKnown
  /\ builds = {}
  /\ live = NothingLive
  /\ driver = "main"
  /\ exitCode = NoExit
  /\ started = "none"
  /\ runlog = NoRun
  /\ CIdle

\* case 'native': codegen = comp.compileNative(file) returns
MainCompileNative ==
  /\ driver = "main"
  /\ edit # Invalid
  /\ driver' = "native"
  /\ UNCHANGED <<edit, event, warns, infos, errors, knownPatches, sent,
                 initProgram, known_patches, builds, live, exitCode, started,
                 runlog>>
  /\ UNCHANGED hvars
  /\ UNCHANGED svars

\* case 'browser': codegen = comp.compileBrowser(file) returns
MainCompileBrowser ==
  /\ driver = "main"
  /\ edit # Invalid
  /\ driver' = "browser"
  /\ UNCHANGED <<edit, event, warns, infos, errors, knownPatches, sent,
                 initProgram, known_patches, builds, live, exitCode, started,
                 runlog>>
  /\ UNCHANGED hvars
  /\ UNCHANGED svars

\* variant: the exception of the first-pass compile is caught and logged
MainCompileThrows_LogsOnly ==
  /\ driver = "main"
  /\ edit = Invalid
  /\ errors' = <<"fatal">>
  /\ driver' = "native"
  /\ UNCHANGED <<edit, event, warns, infos, knownPatches, sent, initProgram,
                 known_patches, builds, live, exitCode, started, runlog>>
  /\ UNCHANGED hvars
  /\ UNCHANGED svars

\* the compile throws: catch (e) { die(e.message) }
MainCompileThrows ==
  /\ driver = "main"
  /\ edit = Invalid
  /\ errors' = <<"fatal">>
  /\ driver' = "exited"
  /\ exitCode' = DieCode
  /\ UNCHANGED <<edit, event, warns, infos, knownPatches, sent, initProgram,
                 known_patches, builds, live, started, runlog>>
  /\ UNCHANGED hvars
  /\ UNCHANGED svars

\* return rt_native.start(file, codegen, showGenerated): the units are built,
\* the executable is launched and the watcher is installed
MainStartNative ==
  /\ driver = "native"
  /\ started' = "native"
  /\ driver' = "watching"
  /\ known_patches' = compileNative(edit)
  /\ live' = [n \in DOMAIN compileNative(edit) |->
                compileNative(edit)[n].impl]
  /\ UNCHANGED <<edit, event, warns, infos, errors, knownPatches, sent,
                 initProgram, builds, exitCode, runlog>>
  /\ UNCHANGED hvars
  /\ UNCHANGED svars

\* return rt_browser.start(file, codegen, showGenerated): the program is
\* served, the patches are compiled and the watcher is installed
MainStartBrowser ==
  /\ driver = "browser"
  /\ started' = "browser"
  /\ driver' = "watching"
  /\ initProgram' = edit
  /\ knownPatches' = compileBrowserPatches(edit)
  /\ UNCHANGED <<edit, event, warns, infos, errors, sent, known_patches,
                 builds, live, exitCode, runlog>>
  /\ UNCHANGED hvars
  /\ UNCHANGED svars

NextD ==
  \/ MainCompileNative
  \/ MainCompileBrowser
  \/ MainCompileThrows
  \/ MainStartNative
  \/ MainStartBrowser

Init == HInit /\ RInit /\ CIdle

Next ==
  \/ Tick
  \/ KStart
  \/ KWrite
  \/ KCompileOk
  \/ KCompileFail
  \/ KUnlock
  \/ Call
  \/ GetLockCheck
  \/ GetDlclose
  \/ GetCopy
  \/ GetDlopen
  \/ GetDlsym
  \/ GetReturn

Spec == Init /\ [][Next]_vars

SpecW == Init /\ [][NextW]_vars

SpecN == Init /\ [][NextN]_vars

SpecE == Init /\ [][NextE]_vars

SpecD == InitD /\ [][NextD]_vars

\* ================================================================ claims

\* a step of the user thread out of position p
Leaves(p) == pc = p /\ pc' # p

\* C1: a get() that finds mtime(lib) # loadtime and the lock file present goes
\* straight to its return, returns the pointer that was cached when it was
\* called, and leaves handle, cached pointer, loadtime and copy as they were.
C1_LockedGetReturnsCached ==
  [][ /\ (Leaves("lockcheck") /\ lock[cur]) =>
           /\ pc' = "ret"
           /\ UNCHANGED <<handle, loaded, loadtime, copy>>
      /\ (Leaves("ret") /\ branch = "locked") =>
           /\ result' = entry.loaded
           /\ handle[cur] = entry.handle
           /\ loaded[cur] = entry.loaded
           /\ loadtime[cur] = entry.loadtime
           /\ copy[cur] = entry.copy ]_vars

\* a get() is returning a cached, stale pointer while the lock is present
C1_Witness ==
  /\ pc = "ret" /\ branch = "locked"
  /\ lock[cur] /\ lib[cur].mtime # loadtime[cur]
  /\ loaded[cur] # Null /\ loaded[cur] # lib[cur].ver

\* C2: get() never copies lib while lib holds bytes written by a build whose
\* lock file has not been removed yet.
C2_NoUnpublishedCopy ==
  [][ Leaves("copy") => ~LibUnpublished(cur) ]_vars

\* C3: a get() call made when no build of its unit is in flight, and during
\* which none starts, returns the implementation that is in lib.
C3_OneGetObservesNewImpl ==
  [][ (Leaves("ret") /\ pc' = "idle" /\ quiet) => result' = lib[cur].ver ]_vars

\* C4: the lock file exists iff a build run of the unit is in flight; src and
\* lib are written only under the lock, src before lib; the run ends, after a
\* successful and after a failed compile alike, by deleting the lock.
C4_LockIffBuilding ==
  /\ [](\A u \in Units : lock[u] <=> kpc[u] # "idle")
  /\ [][ \A u \in Units :
           /\ src'[u] # src[u] => lock[u] /\ lib'[u] = lib[u]
           /\ lib'[u] # lib[u] => lock[u] /\ lib'[u].ver = src[u]
           /\ (kpc[u] \in {"built", "failed"} /\ kpc'[u] # kpc[u]) =>
                 kpc'[u] = "idle" /\ ~lock'[u] ]_vars

\* a successful run on one unit and a failed run on the other have ended
C4_Witness ==
  \E u, v \in Units :
    /\ kpc[u] = "idle" /\ ~lock[u] /\ lib[u].ver = src[u] /\ src[u] > 1
    /\ kpc[v] = "idle" /\ ~lock[v] /\ lib[v].ver < src[v]

\* C5: every dlopen is of copypath, and copypath was rewritten with the whole
\* of lib after the previous dlopen.
C5_LoadsFreshCopy ==
  [][ /\ Leaves("copy") => copy'[cur] = lib[cur].ver
      /\ Leaves("dlopen") =>
           /\ copyFresh[cur]
           /\ pc' = "dlsym" => /\ handle'[cur].path = "copy"
                               /\ handle'[cur].ver = copy[cur] ]_vars

\* a second load of the unit opened a copy different from the first one
C5_Witness ==
  /\ pc = "dlsym"
  /\ entry.handle # NullHandle
  /\ handle[cur].path = "copy"
  /\ handle[cur].ver # entry.handle.ver
\* an edit of the source file was just reconciled
Reconciled == event' = "change"

\* C6: an edit that changes the parameter types of a known reloadable method
\* makes the native reconciliation issue no build, leave known_patches as it
\* was and stop with a warning; lib keeps the old implementation.
C6_SignatureChangeRejected ==
  [][ (Reconciled /\ \E n \in DOMAIN known_patches :
                        /\ edit'[n] # Absent
                        /\ edit'[n].params # known_patches[n].impl.params)
      => /\ builds' = {}
         /\ known_patches' = known_patches
         /\ live' = live
         /\ warns' # <<>> ]_vars

\* a signature change came together with a body change of the other unit,
\* and nothing was built
C6_Witness ==
  /\ event = "change"
  /\ edit["shift"] # Absent
  /\ edit["shift"].params # known_patches["shift"].impl.params
  /\ edit["scale"] # Absent
  /\ edit["scale"].params = known_patches["scale"].impl.params
  /\ edit["scale"].body # known_patches["scale"].impl.body
  /\ builds = {}
  /\ warns = <<"signature">>

\* C7: an edit that deletes a known reloadable method makes the reconciliation
\* broadcast nothing and leave knownPatches as it was.
C7_DeletionKeepsAll ==
  [][ (Reconciled /\ \E n \in MapKeySet(knownPatches) : edit'[n] = Absent)
      => /\ sent' = <<>>
         /\ knownPatches' = knownPatches ]_vars

\* C8: the names in knownPatches never change, and every patch broadcast is
\* for one of them.
C8_KnownNamesFixed ==
  [][ /\ MapKeys(knownPatches') = MapKeys(knownPatches)
      /\ \A i \in 1..Len(sent') : sent'[i].name \in MapKeySet(knownPatches)
    ]_vars

\* an edit added two methods and changed a known one, which was patched
C8_Witness ==
  /\ event = "change"
  /\ edit["twice"] # Absent /\ edit["negate"] # Absent
  /\ Len(sent) = 1
  /\ MapKeys(knownPatches) = KnownNames

\* C9: after reconciling an edit that deletes a known reloadable method or
\* adds a new one, a WARN has been logged.
C9_DeleteOrAddWarns ==
  (/\ event = "change"
   /\ \/ \E n \in MapKeySet(knownPatches) : edit[n] = Absent
      \/ \E n \in Names \ MapKeySet(knownPatches) : edit[n] # Absent)
  => warns # <<>>

SentNames(sq) == {sq[i].name : i \in 1..Len(sq)}

C11_FailedBuildThenEditTakesEffect ==
  [][ /\ (known_patches'[EUnit] # known_patches[EUnit])
           <=> (kpc[EUnit] = "written" /\ kpc'[EUnit] = "built")
      /\ (kpc[EUnit] = "written" /\ kpc'[EUnit] = "built")
           => known_patches'[EUnit].impl.body = edit[EUnit].body
      /\ runlog.failed => known_patches[EUnit].impl = live[EUnit]
      /\ (Leaves("ret") /\ quiet /\ runlog.everFailed /\ ~runlog.failed)
           => /\ live[EUnit].body = edit[EUnit].body
              /\ result' = lib[EUnit].ver
    ]_vars

\* C12: once a build run of the unit has failed, lib is as it was when the
\* run started and the lock is deleted at the end of the run; a get() that
\* returns after the failure, on a unit that was loaded when the run started,
\* returns the pointer cached then, with loadtime and the open object as
\* they were then: it has not reloaded.
C12_FailedBuildChangesNothing ==
  [][ /\ (kpc'[EUnit] = "failed" /\ kpc[EUnit] # "failed")
           => lib'[EUnit] = lib[EUnit]
      /\ (kpc[EUnit] = "failed" /\ kpc'[EUnit] # "failed")
           => lib'[EUnit] = lib[EUnit] /\ ~lock'[EUnit]
      /\ (Leaves("ret") /\ runlog.failed /\ runlog.synced)
           => /\ result' = runlog.loaded
              /\ loaded[EUnit] = runlog.loaded
              /\ loadtime[EUnit] = runlog.loadtime
              /\ Synced(EUnit)
    ]_vars
\* a get() on a loaded unit returns after the compiler failed and the lock
\* is gone
C12_Witness ==
  /\ pc = "ret"
  /\ quiet
  /\ runlog.failed
  /\ runlog.synced
  /\ ~lock[EUnit]
  /\ src[EUnit] > lib[EUnit].ver

\* C14: for one build run on a unit that was loaded when the run started, a
\* get() made after the run has ended leaves loadtime different from what it
\* was when the run started, equal to the modification time of the new lib,
\* with the new implementation loaded: loadtime has changed once.
C14_OneBuildOneReload ==
  [][ (/\ Leaves("ret")
       /\ quiet
       /\ src[EUnit] = 2
       /\ lib[EUnit].ver = 2
       /\ runlog.synced)
        => /\ loadtime[EUnit] # runlog.loadtime
           /\ loadtime[EUnit] = lib[EUnit].mtime
           /\ loaded[EUnit] = 2
    ]_vars

\* C13: loadtime of a unit never decreases.
C13_LoadtimeMonotonic ==
  [][\A u \in Units : loadtime'[u] >= loadtime[u]]_vars
\* a reload has moved loadtime from one modification time to a later one
C13_Witness ==
  /\ pc = "dlsym"
  /\ entry.loadtime = 1
  /\ loadtime[cur] = 2

\* C15: a get() on a unit with no object open and no pointer cached always
\* goes to the lock check; when the lock file is absent there it reloads, and
\* when it returns it has copied lib to copy, opened the copy, resolved the
\* symbol in it and returns that pointer, which is not null.
C15_FirstGetLoads ==
  [][ /\ (pc = "idle" /\ pc' # "idle" /\ handle[cur'] = NullHandle
            /\ loaded[cur'] = Null)
           => pc' = "lockcheck"
      /\ (Leaves("lockcheck") /\ entry.handle = NullHandle
            /\ entry.loaded = Null /\ ~lock[cur])
           => pc' = "dlclose"
      /\ (Leaves("ret") /\ entry.handle = NullHandle /\ entry.loaded = Null
            /\ branch # "locked")
           => /\ branch = "reload"
              /\ copy[cur] # Null
              /\ handle[cur] = [path |-> "copy", ver |-> copy[cur]]
              /\ loaded[cur] = handle[cur].ver
              /\ result' = loaded[cur]
              /\ result' # Null
    ]_vars
\* the first get() of a unit is about to return what it loaded
C15_Witness ==
  /\ pc = "ret"
  /\ entry.handle = NullHandle
  /\ entry.loaded = Null
  /\ entry.loadtime = InitLoadtime
  /\ branch = "reload"
  /\ loaded[cur] # Null

\* C16: a get() that finds the lock file present while no pointer is cached
\* aborts the process, and no get() returns a null pointer.
C16_LockedFirstGetAborts ==
  [][ /\ (Leaves("lockcheck") /\ lock[cur] /\ loaded[cur] = Null)
           => pc' = "dead"
      /\ Leaves("ret") => result' # Null
    ]_vars

\* C17: when dlclose of the open object, dlopen of the copy or dlsym of the
\* symbol fails, the process is dead after that step, and a dead process
\* takes no further step of get(): it neither returns nor loads again.
C17_FailedLoadAborts ==
  [][ /\ (Leaves("dlclose") /\ handle'[cur] # NullHandle) => pc' = "dead"
      /\ (Leaves("dlopen") /\ handle'[cur] = NullHandle) => pc' = "dead"
      /\ (Leaves("dlsym") /\ loaded'[cur] = Null) => pc' = "dead"
      /\ pc = "dead"
           => /\ pc' = "dead"
              /\ UNCHANGED <<handle, loaded, loadtime, copy, result, cur>>
    ]_vars
\* dlsym failed in a reload of a unit that had a pointer cached
C17_Witness ==
  /\ pc = "dead"
  /\ entry.loaded # Null
  /\ handle[cur] # NullHandle
  /\ loaded[cur] = Null

\* C18: when the first-pass compile of the file throws, the step main takes
\* is the exit of the process with code 1; an exited process takes no
\* step; no runtime is ever started on a file that does not compile, so
\* nothing is built, launched, served or watched.
C18_FailedFirstCompileExits ==
  [][ /\ (driver = "main" /\ edit = Invalid /\ driver' # "main")
           => /\ driver' = "exited"
              /\ exitCode' = 1
      /\ driver = "exited"
           => UNCHANGED <<driver, exitCode, started, knownPatches,
                          known_patches, live, initProgram>>
      /\ edit' = Invalid
           => /\ started' = "none"
              /\ driver' \in {"main", "exited"}
              /\ knownPatches' = <<>>
              /\ known_patches' = NothingKnown
              /\ live' = NothingLive
    ]_vars
\* main has exited with code 1 on a file that does not compile
C18_Witness ==
  /\ edit = Invalid
  /\ driver = "exited"
  /\ exitCode = 1
  /\ started = "none"

\* C19: whatever the watcher callback has handled, the driver process is
\* running with the watcher installed, and a content-change event can be
\* handled.
C19_DriverKeepsWatching ==
  /\ driver = "watching"
  /\ exitCode = NoExit
  /\ ENABLED WChange
  /\ ENABLED NChange
\* the callback has handled a change that does not compile, and before that
\* a change that was patched
C19_Witness ==
  /\ event = "throw"
  /\ errors = <<"compile">>
  /\ knownPatches # compileBrowserPatches(InitialProgram)
  /\ driver = "watching"
  /\ ENABLED WChange

\* C20: a change event whose compile throws leaves the known patches of
\* both backends and the live implementations as they were, sends no patch
\* and starts no build.
C20_FailedReparseKeepsState ==
  [][ event' = "throw"
        => /\ knownPatches' = knownPatches
           /\ known_patches' = known_patches
           /\ live' = live
           /\ initProgram' = initProgram
           /\ sent' = <<>>
           /\ builds' = {}
    ]_vars
\* the compile threw after the patch of shift had been replaced
C20_Witness ==
  /\ event = "throw"
  /\ edit = Invalid
  /\ MapGet(knownPatches, "shift").body = 2
  /\ sent = <<>>

\* ---- the lowering run on a program class
\* the class of the file holds any of the programs
InitC ==
  /\ HInit
  /\ RInit
  /\ source \in SrcPrograms
  /\ gen = NoGen
  /\ prev = NoGen
  /\ tu = <<>>
  /\ cpc = "source"
  /\ rpc = [r \in Runs |-> "idle"]
  /\ clients = [c \in Clients |-> NoClient]

\* codegen = compileNative(file)
CCompile ==
  /\ cpc = "source"
  /\ gen' = compileNativeMembers(source)
  /\ cpc' = "compiled"
  /\ UNCHANGED <<source, prev, tu>>
  /\ UNCHANGED <<hvars, wvars, rpc, clients>>

\* a change event on an unchanged file: compileNative(file) again
CRecompile ==
  /\ cpc = "compiled"
  /\ ~gen.fatal
  /\ prev' = gen
  /\ gen' = compileNativeMembers(source)
  /\ cpc' = "recompiled"
  /\ UNCHANGED <<source, tu>>
  /\ UNCHANGED <<hvars, wvars, rpc, clients>>

\* the main translation unit is put together from the generator
CAssemble ==
  /\ cpc \in {"compiled", "recompiled"}
  /\ ~gen.fatal
  /\ tu' = MainTU(gen)
  /\ cpc' = "assembled"
  /\ UNCHANGED <<source, gen, prev>>
  /\ UNCHANGED <<hvars, wvars, rpc, clients>>

NextC ==
  \/ CCompile
  \/ CRecompile
  \/ CAssemble

SpecC == InitC /\ [][NextC]_vars

\* the members of the accepted program, by class
Accepted == cpc # "source" /\ ~gen.fatal
MainsOf(members) == {i \in DOMAIN members : members[i].name = "main"}
HotNames(members) ==
  {members[i].name : i \in {j \in DOMAIN members :
                              members[j].decorators = <<HOTRELOAD>>}}

\* C21: a rename event on the watched file runs no compile and no
\* reconciliation: the known patches of both backends, the live
\* implementations and the initial program stay as they were, no patch is
\* sent and no build is started.
C21_RenameChangesNothing ==
  [][ event' = "rename"
        => /\ knownPatches' = knownPatches
           /\ known_patches' = known_patches
           /\ live' = live
           /\ initProgram' = initProgram
           /\ builds' = builds
           /\ sent' = <<>>
           /\ infos' = <<>>
    ]_vars
\* a rename arrived after a patch of shift had replaced the initial one
C21_Witness ==
  /\ event = "rename"
  /\ warns = <<"rename", "continuing">>
  /\ MapGet(knownPatches, "shift").body = 2
  /\ sent = <<>>

\* the positions of the items of one kind in the translation unit
KindAt(k) == {i \in DOMAIN tu : tu[i].kind = k}
\* the names of a sequence of members or emitted items, in order
NamesOf(seq) == [i \in DOMAIN seq |-> seq[i].name]
\* the members of one class, in source order
RECURSIVE SelectMembers(_, _)
SelectMembers(members, hot) ==
  IF members = <<>> THEN <<>>
  ELSE LET m == Head(members)
           rest == SelectMembers(Tail(members), hot)
       IN IF m.name # "main" /\ (m.decorators = <<HOTRELOAD>>) = hot
            THEN <<m>> \o rest
            ELSE rest

\* C22: in the main translation unit every static function comes before
\* every HotReload wiring declaration, each group in source order, and main
\* is the last item.
C22_StaticsWiringMain ==
  cpc = "assembled"
    => /\ \A i \in KindAt("static") : \A j \in KindAt("wiring") : i < j
       /\ \A j \in KindAt("wiring") : \A k \in KindAt("main") : j < k
       /\ tu[Len(tu)].kind = "main"
       /\ NamesOf(tu) = NamesOf(SelectMembers(source, FALSE))
                          \o NamesOf(SelectMembers(source, TRUE))
                          \o <<"main">>

\* every call in an emitted expression has the suffix .get() exactly when
\* its callee is one of the names
RECURSIVE CallsRewritten(_, _)
CallsRewritten(e, names) ==
  /\ e.call => (e.suffix = ".get()" <=> e.text \in names)
  /\ e.call => e.suffix \in {".get()", ""}
  /\ \A i \in DOMAIN e.args : CallsRewritten(e.args[i], names)
BodyRewritten(body, names) ==
  \A i \in DOMAIN body : CallsRewritten(body[i].expr, names)

\* C23: in the body of main, of every static function and of every
\* reloadable function of an accepted program, a call is emitted with
\* .get() if and only if its callee is a reloadable method of the program,
\* at every depth of the argument lists.
C23_GetIffReloadable ==
  Accepted
    => /\ BodyRewritten(gen.main.body, HotNames(source))
       /\ \A i \in DOMAIN gen.topLevels :
            BodyRewritten(gen.topLevels[i].body, HotNames(source))
       /\ \A i \in DOMAIN gen.hotReload :
            BodyRewritten(gen.hotReload[i].impl.body, HotNames(source))
\* main, a static g and a reloadable f: f() is rewritten in all three
\* bodies, also as the argument of print, and print is called directly
C23_Witness ==
  /\ Accepted
  /\ HotNames(source) = {"f"}
  /\ Len(gen.topLevels) = 1
  /\ Len(gen.hotReload) = 1
  /\ \A i \in DOMAIN source : source[i].body = DefaultBody
  /\ gen.main.body[1].expr.suffix = ".get()"
  /\ gen.main.body[2].expr.suffix = ""
  /\ gen.main.body[2].expr.args[1].suffix = ".get()"
  /\ gen.topLevels[1].body[1].expr.suffix = ".get()"
  /\ gen.hotReload[1].impl.body[2].expr.args[1].suffix = ".get()"

\* C24: every method of an accepted program has a return type and typed
\* parameters, and no emitted function has auto as its return type or as
\* the type of a parameter.
C24_NoAutoReturnOrParam ==
  Accepted
    => /\ \A i \in DOMAIN source :
            /\ source[i].type # NoType
            /\ \A j \in DOMAIN source[i].parameters :
                 source[i].parameters[j].type # NoType
       /\ gen.main.ret # "auto"
       /\ \A i \in DOMAIN gen.topLevels :
            /\ gen.topLevels[i].ret # "auto"
            /\ \A j \in DOMAIN gen.topLevels[i].params :
                 gen.topLevels[i].params[j].ty # "auto"
       /\ \A i \in DOMAIN gen.hotReload : gen.hotReload[i].impl.ret # "auto"

\* C25: an accepted program has exactly one member named main, it carries
\* no reload marker, and every member is emitted in exactly one of main,
\* the static functions and the reloadable functions; a program whose main
\* carries the marker, or that has no main, is rejected.
C25_OneMainNotReloadable ==
  cpc # "source"
    => /\ ~gen.fatal
         => /\ Cardinality(MainsOf(source)) = 1
            /\ \A i \in MainsOf(source) : source[i].decorators = <<>>
            /\ gen.main.name = "main"
            /\ NamesOf(gen.topLevels) = NamesOf(SelectMembers(source, FALSE))
            /\ NamesOf(gen.hotReload) = NamesOf(SelectMembers(source, TRUE))
            /\ Len(gen.topLevels) + Len(gen.hotReload) + 1 = Len(source)
       /\ MainsOf(source) = {} => gen.fatal
       /\ (\E i \in MainsOf(source) : source[i].decorators # <<>>)
            => gen.fatal
\* a program with one member of each class was accepted
C25_Witness ==
  /\ Accepted
  /\ Len(source) = 3
  /\ Len(gen.topLevels) = 1
  /\ Len(gen.hotReload) = 1
  /\ source[3].name = "main"

\* C26: the reloadable functions of an accepted program are exactly the
\* members whose decorator list is the reload marker alone; a member with
\* two decorators, or with one that is not the marker, makes compileNative
\* throw.
C26_MarkerAloneIsReloadable ==
  cpc # "source"
    => /\ ~gen.fatal
         => /\ {gen.hotReload[i].name : i \in DOMAIN gen.hotReload}
                 = HotNames(source)
            /\ \A i \in DOMAIN gen.topLevels :
                 gen.topLevels[i].name \notin HotNames(source)
       /\ (\E i \in DOMAIN source :
             \/ Len(source[i].decorators) > 1
             \/ /\ Len(source[i].decorators) = 1
                /\ source[i].decorators[1] # HOTRELOAD)
            => gen.fatal
\* a program with a doubly decorated member was rejected
C26_Witness ==
  /\ cpc = "compiled"
  /\ gen.fatal
  /\ ~createProgramFails(source)
  /\ Cardinality(MainsOf(source)) = 1
  /\ \A i \in MainsOf(source) : source[i].decorators = <<>>
  /\ \E i \in DOMAIN source :
       /\ source[i].decorators = <<HOTRELOAD, "memo">>
       /\ \A j \in DOMAIN source : j # i => Len(source[j].decorators) < 2

\* C27: in an accepted program every return type is number or
\* Promise<number>, and every parameter type and local annotation is
\* number: Promise<number> is never accepted outside a return type.
C27_PromiseOnlyAsReturn ==
  Accepted
    => \A i \in DOMAIN source :
         /\ source[i].type \in {NoType, <<"number">>, <<"Promise", "number">>}
         /\ \A j \in DOMAIN source[i].parameters :
              source[i].parameters[j].type = <<"number">>
         /\ \A j \in DOMAIN source[i].body :
              source[i].body[j].type \in {NoType, <<"number">>}

C29_FastPathChangesNothing ==
  [][ /\ (pc = "idle" /\ pc' # "idle" /\ loadtime[cur'] = lib[cur'].mtime)
           => /\ pc' = "ret"
              /\ branch' = "fast"
              /\ UNCHANGED <<handle, loaded, loadtime, copy, copyFresh>>
      /\ (pc = "ret" /\ branch = "fast")
           => /\ pc' \in {"ret", "idle"}
              /\ UNCHANGED <<handle, loaded, loadtime, copy, copyFresh>>
              /\ handle[cur] = entry.handle
              /\ loaded[cur] = entry.loaded
              /\ loadtime[cur] = entry.loadtime
              /\ copy[cur] = entry.copy
              /\ pc' = "idle" => result' = entry.loaded
    ]_vars
\* a get() on a unit loaded before is about to return on the fast path
\* while a build run of the unit holds the lock
C29_Witness ==
  /\ pc = "ret"
  /\ branch = "fast"
  /\ entry.loaded # Null
  /\ loaded[cur] = entry.loaded
  /\ lock[cur]

\* ---- two runs of build_shared_object on the files of one unit
\* the positions at which a run holds the lock
InFlight == {"locked", "written", "built", "failed"}

\* the files the runs leave alone
kframe == <<copy, kpc, handle, loaded, loadtime, pc, cur, statm, branch,
            result, copyFresh, entry, quiet, now>>

\* variant: the lock file is created whether or not it exists
RunCreateLock_NotExclusive(r) ==
  /\ rpc[r] = "idle"
  /\ src[EUnit] < MaxSrc
  /\ lock' = [lock EXCEPT ![EUnit] = TRUE]
  /\ rpc' = [rpc EXCEPT ![r] = "locked"]
  /\ UNCHANGED <<lib, src, kframe, wvars, cvars, clients>>

\* 1. create lock, exclusive: the lock did not exist
RunCreateLock(r) ==
  /\ rpc[r] = "idle"
  /\ src[EUnit] < MaxSrc
  /\ ~lock[EUnit]
  /\ lock' = [lock EXCEPT ![EUnit] = TRUE]
  /\ rpc' = [rpc EXCEPT ![r] = "locked"]
  /\ UNCHANGED <<lib, src, kframe, wvars, cvars, clients>>

\* 1. create lock, exclusive: the lock exists and the run fails
RunRefused(r) ==
  /\ rpc[r] = "idle"
  /\ lock[EUnit]
  /\ rpc' = [rpc EXCEPT ![r] = "refused"]
  /\ UNCHANGED <<lib, src, lock, kframe, wvars, cvars, clients>>

\* 2. write the source file to src
RunWriteSrc(r) ==
  /\ rpc[r] = "locked"
  /\ src' = [src EXCEPT ![EUnit] = src[EUnit] + 1]
  /\ rpc' = [rpc EXCEPT ![r] = "written"]
  /\ UNCHANGED <<lib, lock, kframe, wvars, cvars, clients>>

\* 3. invoke the compiler; on success move the object over out_lib
RunCompileOk(r) ==
  /\ rpc[r] = "written"
  /\ lib' = [lib EXCEPT ![EUnit] = [ver |-> src[EUnit], mtime |-> now]]
  /\ rpc' = [rpc EXCEPT ![r] = "built"]
  /\ UNCHANGED <<src, lock, kframe, wvars, cvars, clients>>

\* 5. on compiler failure out_lib is not touched
RunCompileFail(r) ==
  /\ rpc[r] = "written"
  /\ rpc' = [rpc EXCEPT ![r] = "failed"]
  /\ UNCHANGED <<lib, src, lock, kframe, wvars, cvars, clients>>

\* 4. / 5. delete lock
RunDeleteLock(r) ==
  /\ rpc[r] \in {"built", "failed"}
  /\ lock' = [lock EXCEPT ![EUnit] = FALSE]
  /\ rpc' = [rpc EXCEPT ![r] = "idle"]
  /\ UNCHANGED <<lib, src, kframe, wvars, cvars, clients>>

\* the failure of a refused run has been reported to the watcher
RunReported(r) ==
  /\ rpc[r] = "refused"
  /\ rpc' = [rpc EXCEPT ![r] = "idle"]
  /\ UNCHANGED <<lib, src, lock, kframe, wvars, cvars, clients>>

KCreateLock == \E r \in Runs : RunCreateLock(r)
KRefused == \E r \in Runs : RunRefused(r)
KWriteSrc == \E r \in Runs : RunWriteSrc(r)
KBuildOk == \E r \in Runs : RunCompileOk(r)
KBuildFail == \E r \in Runs : RunCompileFail(r)
KDeleteLock == \E r \in Runs : RunDeleteLock(r)
KReported == \E r \in Runs : RunReported(r)

NextK ==
  \/ Tick
  \/ KCreateLock
  \/ KRefused
  \/ KWriteSrc
  \/ KBuildOk
  \/ KBuildFail
  \/ KDeleteLock
  \/ KReported

SpecK == Init /\ [][NextK]_vars

\* the runs that hold the lock
Holders == {r \in Runs : rpc[r] \in InFlight}

\* C30: a run that finds the lock file fails and writes neither src nor
\* lib nor the lock; src and lib are written only by the one run that
\* holds the lock, and at no time do two runs of one unit hold it.
C30_OneBuildInFlight ==
  [][ /\ Cardinality(Holders') <= 1
      /\ Holders' # {} => lock'[EUnit]
      /\ \A r \in Runs :
           (rpc[r] = "idle" /\ rpc'[r] # "idle" /\ lock[EUnit])
             => /\ rpc'[r] = "refused"
                /\ UNCHANGED <<src, lib, lock>>
      /\ (src' # src \/ lib' # lib)
           => \E r \in Holders : rpc'[r] # rpc[r] /\ Holders = {r}
    ]_vars
\* one run was refused while the other had written src and not yet built
C30_Witness ==
  /\ rpc[1] = "refused"
  /\ rpc[2] = "written"
  /\ lock[EUnit]
  /\ src[EUnit] > lib[EUnit].ver

\* ---- browser backend: the page, the /hotreload socket and the patches
\* the edits of this part change the bodies of the known methods only
BodyEdits ==
  {p \in Programs : \A n \in Names :
     IF n \in Known THEN p[n] # Absent /\ p[n].params = 1
                    ELSE p[n] = Absent}

\* onmessage: every patch received is injected and redefines its function
RECURSIVE hotreloadAll(_, _)
hotreloadAll(runs, patches) ==
  IF patches = <<>> THEN runs
  ELSE hotreloadAll([runs EXCEPT ![Head(patches).name] = Head(patches)],
                    Tail(patches))

\* app.get('/'): the page is rendered with the program set at start
BPage ==
  /\ driver = "watching"
  /\ \E c \in Clients :
       clients' = [clients EXCEPT
                     ![c] = [pos |-> "page",
                             runs |-> [n \in Known |->
                                         JsPatch(n, initProgram[n])]]]
  /\ UNCHANGED <<wvars, cvars, rpc>>
  /\ UNCHANGED hvars

\* app.ws('/hotreload'): the socket of the page is registered
BOpen ==
  /\ driver = "watching"
  /\ \E c \in Clients :
       /\ clients[c].pos = "page"
       /\ clients' = [clients EXCEPT ![c].pos = "open"]
  /\ UNCHANGED <<wvars, cvars, rpc>>
  /\ UNCHANGED hvars

\* case 'change': the patches are sent to the registered sockets, whose
\* pages apply them
BChange ==
  /\ driver = "watching"
  /\ \E prog \in BodyEdits :
    LET r == reconcileChangedHotReloadable(knownPatches,
                                           compileBrowserPatches(prog))
    IN /\ edit' = prog
       /\ event' = "change"
       /\ knownPatches' = r.known
       /\ sent' = r.sent
       /\ warns' = r.warns
       /\ infos' = r.infos
       /\ errors' = <<>>
       /\ clients' = [c \in Clients |->
                        IF clients[c].pos = "open"
                          THEN [clients[c] EXCEPT
                                  !.runs = hotreloadAll(@, r.sent)]
                          ELSE clients[c]]
  /\ UNCHANGED <<initProgram, known_patches, builds, live>>
  /\ UNCHANGED dvars
  /\ UNCHANGED hvars
  /\ UNCHANGED <<cvars, rpc>>

NextB ==
  \/ BPage
  \/ BOpen
  \/ BChange
  \/ WChangeThrows
  \/ WRename

SpecB == Init /\ [][NextB]_vars

\* a step of get(): each of them moves the call on
GetStep == pc' # pc
\* what the running binary keeps of unit u, and the files of unit u
CellOf(u) == <<handle[u], loaded[u], loadtime[u]>>
FilesOf(u) == <<lib[u], copy[u], lock[u]>>

\* C31: a step of get() on one unit leaves handle, cached pointer,
\* loadtime, lib, copy and lock of every other unit as they are, and so
\* does a step of a build of one unit; whether get() reloads or returns is
\* decided by loadtime, lib and lock of its own unit alone.
C31_UnitsIndependent ==
  [][ /\ GetStep
        => \A u \in Units \ {cur'} :
             UNCHANGED <<CellOf(u), FilesOf(u)>>
      /\ \A v \in Units :
           kpc'[v] # kpc[v]
             => \A u \in Units \ {v} :
                  UNCHANGED <<CellOf(u), FilesOf(u), src[u], kpc[u]>>
      /\ (pc = "idle" /\ pc' # "idle")
           => (pc' = "ret" <=> loadtime[cur'] = lib[cur'].mtime)
      /\ Leaves("lockcheck") => (pc' = "ret" <=> lock[cur])
    ]_vars
\* get() has just copied the lib of one unit while the other unit, loaded
\* before from an older lib, is being built
C31_Witness ==
  \E u \in Units :
    /\ pc = "dlopen" /\ cur # u
    /\ copy[cur] = lib[cur].ver
    /\ handle[u] # NullHandle
    /\ copy[u] # lib[cur].ver
    /\ lock[u]

\* C32: a step of get() leaves lib, lock and src as they are and writes at
\* most the copy of the unit it is called on; every other step leaves copy
\* as it is, and lib and lock change only in a step of a build run.
C32_SingleWriter ==
  [][ /\ GetStep
        => /\ UNCHANGED <<lib, lock, src>>
           /\ \A u \in Units \ {cur'} : copy'[u] = copy[u]
      /\ ~GetStep => UNCHANGED copy
      /\ (lib' # lib \/ lock' # lock) => kpc' # kpc
      /\ copy' # copy => (pc = "copy" /\ pc' = "dlopen")
    ]_vars
\* get() has written copy a second time, from a lib that a build run wrote,
\* while the next build run holds the lock
C32_Witness ==
  /\ pc = "dlopen"
  /\ entry.copy # Null
  /\ copy[cur] # entry.copy
  /\ copy[cur] = lib[cur].ver
  /\ lock[cur]

\* the cached pointer of unit u, if there is one, was resolved from the
\* handle that is open
FromOpenHandle(u) ==
  loaded[u] # Null => /\ handle[u] # NullHandle
                      /\ loaded[u] = handle[u].ver

\* C33 as stated: in every state the cached pointer of every unit was
\* resolved from the handle that is open (between the dlclose and the dlsym
\* of a reload it was not).
C33_CachedPointerNeverReleased ==
  \A u \in Units : FromOpenHandle(u)

\* C33: a pointer that get() returns as present was resolved from the
\* handle open at the return; dlopen is reached only with the previous
\* handle released; the return on a present lock releases nothing; and
\* outside the stretch from dlclose to dlsym of a reload of the unit the
\* cached pointer was resolved from the open handle.
C33_ReturnedPointerFromOpenHandle ==
  [][ /\ (Leaves("ret") /\ result' # Null)
           => /\ handle[cur] # NullHandle
              /\ result' = handle[cur].ver
      /\ Leaves("dlopen") => handle[cur] = NullHandle
      /\ (Leaves("lockcheck") /\ lock[cur]) => UNCHANGED <<handle, loaded>>
      /\ \A u \in Units :
           (pc' \in {"idle", "lockcheck", "dlclose", "ret"} \/ cur' # u)
             => FromOpenHandle(u)'
    ]_vars
\* a second load of the unit is about to return the pointer it resolved
C33_Witness ==
  /\ pc = "ret"
  /\ branch = "reload"
  /\ entry.handle # NullHandle
  /\ entry.loaded # Null
  /\ loaded[cur] # entry.loaded
  /\ loaded[cur] = handle[cur].ver

\* C34: the lib that a reload copies has the modification time that the
\* call has seen in its stat, and that time is what a completed reload has
\* recorded as loadtime: loadtime is the time of the lib that was copied
\* and loaded.
C34_LoadtimeOfLoadedLib ==
  [][ /\ Leaves("copy") => statm = lib[cur].mtime
      /\ (Leaves("dlopen") /\ pc' = "dlsym") => loadtime'[cur] = statm
      /\ (Leaves("ret") /\ branch = "reload") => loadtime[cur] = statm
    ]_vars

\* the last patch for name n in a sequence of broadcast patches
LastSent(sq, n) ==
  LET at == {i \in 1..Len(sq) : sq[i].name = n}
  IN sq[CHOOSE i \in at : \A j \in at : j <= i]

\* C35: in every step of the browser callback and for every known name,
\* the patch recorded in knownPatches afterwards is the last patch of that
\* name broadcast in the step, and is the patch recorded before when none
\* was broadcast; so from the initial compile on knownPatches holds the
\* last patch broadcast. A step that stops at a deleted name is no
\* exception.
C35_RecordedIsLastBroadcast ==
  [][ \A n \in MapKeySet(knownPatches) :
        /\ MapHas(knownPatches', n)
        /\ IF n \in SentNames(sent')
             THEN MapGet(knownPatches', n) = LastSent(sent', n)
             ELSE MapGet(knownPatches', n) = MapGet(knownPatches, n)
    ]_vars
\* a reconciliation broadcast the new patch of scale and then stopped at
\* the deleted shift
C35_Witness ==
  /\ event = "change"
  /\ edit["shift"] = Absent
  /\ SentNames(sent) = {"scale"}
  /\ MapGet(knownPatches, "scale") = LastSent(sent, "scale")
  /\ MapGet(knownPatches, "scale").body = 2
  /\ warns = <<"deletion", "continuing">>

\* C37: after a change has been reconciled in which every known name is
\* present, reconciling the patches of the same file once more broadcasts
\* no patch, reports no reload and leaves knownPatches as it is.
C37_ReconcileIdempotent ==
  (/\ event = "change"
   /\ \A n \in MapKeySet(knownPatches) : edit[n] # Absent)
    => LET again == reconcileChangedHotReloadable(
                      knownPatches, compileBrowserPatches(edit))
       IN /\ again.sent = <<>>
          /\ again.infos = <<>>
          /\ again.known = knownPatches
\* the change just reconciled replaced both known patches
C37_Witness ==
  /\ event = "change"
  /\ Len(sent) = 2
  /\ \A n \in MapKeySet(knownPatches) :
       /\ edit[n] # Absent
       /\ MapGet(knownPatches, n) = JsPatch(n, edit[n])
       /\ MapGet(knownPatches, n) # JsPatch(n, InitialProgram[n])

\* C36: every browser whose /hotreload socket is open runs, for every known
\* name, the patch recorded in knownPatches.
C36_ClientsRunKnownPatches ==
  \A c \in Clients :
    clients[c].pos = "open"
      => \A n \in MapKeySet(knownPatches) :
           clients[c].runs[n] = MapGet(knownPatches, n)

====
